---- MODULE Spec2Model ----
(***************************************************************************)
(* A model of the plot pipeline of dvc: the two multi-revision loaders     *)
(* (dvc/repo/plot.py and dvc/repo/plot/data.py), the orchestrator plot(),  *)
(* the record processors of dvc/repo/plot/data.py, the CSV/TSV parsers and *)
(* DefaultTemplate.fill of dvc/plot.py.                                    *)
(*                                                                         *)
(* Python values are modelled as follows.                                  *)
(*   str                    a revision label, a file name, a JSON value:   *)
(*                          a TLA+ string; a dict key or a CSV field: the  *)
(*                          sequence of its characters, where a key the    *)
(*                          source writes as a literal is the one-element  *)
(*                          sequence S("rev")                              *)
(*   dict / OrderedDict     a sequence of <<key, value>> pairs with        *)
(*                          distinct keys, in insertion order              *)
(*   list                   a sequence                                     *)
(*   an exception           its class name, a string                      *)
(***************************************************************************)
EXTENDS Integers, Sequences, FiniteSets, TLC

VARIABLES
    \* ---- the multi-revision loader (_load_from_revisions) ----
    impl,          \* which module's loader runs: "plot_py" or "data_py"
    datafile,      \* the datafile argument: [stem, ext]
    default_plot,  \* the default_plot argument (dvc/repo/plot.py only)
    dirty,         \* what repo.scm.is_dirty() answers
    tree,          \* place -> what opening the datafile there gives
    callerRevs,    \* the revisions list as the caller passed it
    revisions,     \* the revisions list object (plot.py appends to it)
    pc,            \* position of the control flow
    idx,           \* number of loop iterations of `for rev in revisions` done
    data,          \* the local `data`
    exceptions,    \* the local `exceptions`: the revisions of the caught errors
    warnings,      \* logger.warning calls: the revision each one names
    errorsLogged,  \* logger.error calls: the revision each one names
    reads,         \* revisions whose datafile was opened, in order
    dirtyQueries,  \* number of repo.scm.is_dirty() calls
    result,        \* how _load_from_revisions ended: [kind, exc, value]
    \* ---- _filter_fields (dvc/repo/plot/data.py) ----
    fpc,           \* "idle", "ready", "filtered", "refiltered"
    fArg,          \* the data_points argument as first passed
    fPoints,       \* the data_points list object, as the calls leave it
    fNames,        \* the fieldnames argument
    fFields,       \* the fields argument (a set)
    fOut,          \* what the first call gave: [exc, data, fieldnames, ...]
    fOut2,         \* what the call on its own output gave
    \* ---- the orchestrator plot() (dvc/repo/plot.py) ----
    ppc,           \* "idle", "start", "loading", "done"
    pDatafile,     \* the datafile argument (NoDatafile: None)
    pRevisions,    \* the revisions argument as the caller passed it
    pTemplate,     \* the template argument ("": None)
    pExists,       \* what os.path.exists(template) answers
    pPlaceholders, \* what Template.parse_data_placeholders gives
    pTodo,         \* template_datafiles not loaded yet
    pLoads,        \* per finished load: the datafile and the revisions used
    pFilled,       \* Template.fill was called
    pResult,       \* how plot() ended: [kind, exc, value]
    \* ---- the CSV/TSV parsers ----
    cpc,           \* "idle", "ready", "raw", "points", "parsed"
    cLines,        \* the content: its lines, each a sequence of characters
    cDelim,        \* the delimiter of the extension: "," (.csv), TAB (.tsv)
    cRaw,          \* CSVPlotData.raw: [exc, fieldnames, rows]
    cPoints,       \* to_datapoints of it in default-plot mode: [exc, data]
    cPlotPy,       \* _parse_csv of dvc/repo/plot.py, default_plot: [exc, data]
    cPlotPyRows,   \* the same without default_plot: [exc, data]
    \* ---- DefaultTemplate.fill (dvc/plot.py) ----
    tpc,           \* "idle", "ready", "loaded", "filled"
    tRaw,          \* the records of the data file
    tRev,          \* the revision they are loaded from
    tTagKey,       \* the key of the revision tag in the data handed to fill
    tPoints,       \* the data handed to fill
    tOut,          \* what fill gave: [exc, doc]
    \* ---- _find_data (dvc/repo/plot/data.py) ----
    gpc,           \* "idle", "ready", "searched"
    gData,         \* the data argument: a parsed JSON value
    gNames,        \* the fieldnames argument (<<>>: None)
    gFields,       \* the fields argument (a set; {}: None)
    gOut           \* what the call gave: [exc, data, fieldnames]

loaderVars == <<impl, datafile, default_plot, dirty, tree, callerRevs,
                revisions, pc, idx, data, exceptions, warnings, errorsLogged,
                reads, dirtyQueries, result>>

filterVars == <<fpc, fArg, fPoints, fNames, fFields, fOut, fOut2>>

plotVars == <<ppc, pDatafile, pRevisions, pTemplate, pExists,
              pPlaceholders, pTodo, pLoads, pFilled, pResult>>

csvVars == <<cpc, cLines, cDelim, cRaw, cPoints, cPlotPy, cPlotPyRows>>

fillVars == <<tpc, tRaw, tRev, tTagKey, tPoints, tOut>>

findVars == <<gpc, gData, gNames, gFields, gOut>>

vars == <<loaderVars, filterVars, plotVars, csvVars, fillVars, findVars>>

WORKSPACE_REVISION_NAME == "workspace"

\* ------------------------------------------------------------------------
\* dict helpers
\* ------------------------------------------------------------------------
\* a key that the source writes as a literal
S(literal) == <<literal>>

DictKeys(d) == {d[i][1] : i \in DOMAIN d}

DictKeyList(d) == [i \in DOMAIN d |-> d[i][1]]

DictGet(d, k) == d[CHOOSE i \in DOMAIN d : d[i][1] = k][2]

\* d[k] = v: an existing key keeps its place, a new key goes last
DictSet(d, k, v) ==
    IF k \in DictKeys(d)
    THEN [i \in DOMAIN d |-> IF d[i][1] = k THEN <<k, v>> ELSE d[i]]
    ELSE Append(d, <<k, v>>)

Last(s) == s[Len(s)]

Range(s) == {s[i] : i \in DOMAIN s}

RECURSIVE Concat(_)
Concat(ss) == IF ss = <<>> THEN <<>> ELSE Head(ss) \o Concat(Tail(ss))

\* ------------------------------------------------------------------------
\* csv.reader and csv.DictReader of the standard library, on content without
\* quotes, spaces or carriage returns.  A line and a field are sequences of
\* characters.
\* ------------------------------------------------------------------------
TAB == "\t"

\* None as a key (DictReader's restkey) and as a value (its restval)
NoneKey == <<"None">>
NoneVal == <<"None">>

\* a list of fields as a value: "[", then every field followed by ";"
ListVal(fields) ==
    <<"[">> \o Concat([i \in DOMAIN fields |-> fields[i] \o <<";">>])

RECURSIVE SplitLine(_, _)
SplitLine(line, delimiter) ==
    IF \E i \in DOMAIN line : line[i] = delimiter
    THEN LET at == CHOOSE i \in DOMAIN line :
                      /\ line[i] = delimiter
                      /\ \A j \in 1..(i - 1) : line[j] # delimiter
         IN <<SubSeq(line, 1, at - 1)>>
                \o SplitLine(SubSeq(line, at + 1, Len(line)), delimiter)
    ELSE <<line>>

\* the row csv.reader gives for a line: no field for a blank line
csv_row(line, delimiter) ==
    IF line = <<>> THEN <<>> ELSE SplitLine(line, delimiter)

csv_reader(lines, delimiter) ==
    [i \in DOMAIN lines |-> csv_row(lines[i], delimiter)]

RECURSIVE ZipDict(_, _, _, _)
ZipDict(fieldnames, row, i, d) ==
    IF i > Len(fieldnames) \/ i > Len(row) THEN d
    ELSE ZipDict(fieldnames, row, i + 1, DictSet(d, fieldnames[i], row[i]))

RECURSIVE FillMissing(_, _, _)
FillMissing(fieldnames, i, d) ==
    IF i > Len(fieldnames) THEN d
    ELSE FillMissing(fieldnames, i + 1, DictSet(d, fieldnames[i], NoneVal))

\* DictReader.__next__ for one row that is not blank
DictRow(fieldnames, row) ==
    LET d == ZipDict(fieldnames, row, 1, <<>>) IN
    IF Len(fieldnames) < Len(row)
    THEN DictSet(d, NoneKey,
                 ListVal(SubSeq(row, Len(fieldnames) + 1, Len(row))))
    ELSE IF Len(fieldnames) > Len(row)
         THEN FillMissing(fieldnames, Len(row) + 1, d)
         ELSE d

\* the rows of a DictReader over rows: blank rows are skipped
DictRows(fieldnames, rows) ==
    LET kept == SelectSeq(rows, LAMBDA r : r # <<>>) IN
    [i \in DOMAIN kept |-> DictRow(fieldnames, kept[i])]

\* DictReader(f, delimiter=delimiter, fieldnames=fieldnames)
DictReaderWithNames(lines, delimiter, fieldnames) ==
    [fieldnames |-> fieldnames,
     rows |-> DictRows(fieldnames, csv_reader(lines, delimiter))]

\* DictReader(f, delimiter=delimiter): the first row, blank or not, gives the
\* field names (None, modelled as <<>>, when there is no row)
DictReaderFromHeader(lines, delimiter) ==
    LET rows == csv_reader(lines, delimiter) IN
    IF rows = <<>> THEN [fieldnames |-> <<>>, rows |-> <<>>]
    ELSE [fieldnames |-> rows[1], rows |-> DictRows(rows[1], Tail(rows))]

\* ------------------------------------------------------------------------
\* Bounds and input domains of the loader
\* ------------------------------------------------------------------------
MaxRevs == 3

\* A string equal to WORKSPACE_REVISION_NAME that is another object, as a
\* revision typed by the user is: `revision is WORKSPACE_REVISION_NAME` is
\* false for it.  The label "workspace" itself is the constant of the module.
WorkspaceTyped == "workspace (another object)"

\* the text of a revision label
RevName(rev) == IF rev = WorkspaceTyped THEN "workspace" ELSE rev

CallerLabels == {"v1", "v2", WORKSPACE_REVISION_NAME, WorkspaceTyped}
Labels == CallerLabels \cup {"HEAD"}

\* Where a file is looked for: the working tree (repo.tree), or a revision
\* that the repository has (scm.get_tree, dvc.api.open).  It has none named
\* workspace.
GitRevisions == {"v1", "v2", "HEAD"}
WorkingTree == "repo.tree"
Places == GitRevisions \cup {WorkingTree}

\* What opening and loading the datafile at a place gives:
\*   absent     FileNotFoundError / PathMissingError
\*   ioerror    another failure of open()/read() (OSError, UnicodeDecodeError)
\*   malformed  the content is read but is not valid JSON or YAML
\*   empty      no record: the JSON or YAML list [], an empty CSV/TSV file
\*   records    the records of RecordsAt, in the format of the extension
ContentKinds == {"absent", "ioerror", "malformed", "empty", "records"}

\* The records of the file where it holds some; the file of the working
\* tree has a field named "rev" of its own.
RecordsAt(place) ==
    CASE place = "v1" -> << <<(<<S("m"), "11">>)>>, <<(<<S("m"), "12">>)>> >>
      [] place = "v2" -> << <<(<<S("m"), "21">>)>> >>
      [] place = "HEAD" -> << <<(<<S("k"), "40">>), <<S("m"), "41">>>> >>
      [] OTHER -> << << <<S("rev"), "stale">>, <<S("m"), "31">> >>,
                     << <<S("rev"), "stale">>, <<S("m"), "32">> >> >>

\* what json.load / yaml.load give for content that parses
ParsedContent(kind, place) ==
    IF kind = "records" THEN RecordsAt(place) ELSE <<>>

\* fields joined by the delimiter into one line; a field is a sequence of
\* unbroken runs of characters
RECURSIVE JoinFields(_, _)
JoinFields(fields, delimiter) ==
    IF fields = <<>> THEN <<>>
    ELSE IF Len(fields) = 1 THEN fields[1]
    ELSE fields[1] \o <<delimiter>> \o JoinFields(Tail(fields), delimiter)

\* The lines of a CSV/TSV file: the header and one line per record of
\* RecordsAt; no line for an empty file; the one line "{" for content that
\* is not JSON
CsvContent(kind, place, delimiter) ==
    IF kind = "records"
    THEN LET recs == RecordsAt(place) IN
         <<JoinFields(DictKeyList(recs[1]), delimiter)>> \o
         [i \in DOMAIN recs |->
            JoinFields([j \in DOMAIN recs[i] |-> <<recs[i][j][2]>>],
                       delimiter)]
    ELSE IF kind = "malformed" THEN << <<"{">> >>
    ELSE <<>>

\* str.lower() on the extensions of DataFiles
Lower(ext) == IF ext = ".JSON" THEN ".json" ELSE ext

\* data files: the name without its extension (never empty), the extension
\* as written
DataFiles == {[stem |-> "metric", ext |-> ".json"],
              [stem |-> "METRIC", ext |-> ".JSON"],
              [stem |-> "metric", ext |-> ".csv"],
              [stem |-> "metric", ext |-> ".tsv"],
              [stem |-> "metric", ext |-> ".yaml"],
              [stem |-> "metric", ext |-> ".txt"]}

SeqsUpTo(Elems, n) == UNION {[1..k -> Elems] : k \in 0..n}

\* the revisions argument of the loader: up to MaxRevs labels, no string
\* object twice
RevisionLists ==
    {revs \in SeqsUpTo(CallerLabels, MaxRevs) :
        \A a, b \in DOMAIN revs : revs[a] = revs[b] => a = b}

NoResult == [kind |-> "running", exc |-> "", value |-> <<>>]
Returned(v) == [kind |-> "returned", exc |-> "", value |-> v]
Raised(e) == [kind |-> "raised", exc |-> e, value |-> <<>>]

\* ------------------------------------------------------------------------
\* dvc/repo/plot.py
\* ------------------------------------------------------------------------
\* (mutant) the tag set only where a record has no "rev" field yet
TagRecords_setdefault(recs, revision) ==
    [i \in DOMAIN recs |->
        IF S("rev") \in DictKeys(recs[i]) THEN recs[i]
        ELSE Append(recs[i], <<S("rev"), revision>>)]

\* for d in data: d["rev"] = revision
TagRecords(recs, revision) ==
    [i \in DOMAIN recs |-> DictSet(recs[i], S("rev"), revision)]

\* _parse once the file is open, with the loading function of JSON or of
\* YAML: raises on malformed content; with default_plot the x/y pairs of the
\* last key of the first record.
_parse(loading_function, kind, place, dflt) ==
    IF kind = "malformed"
    THEN [exc |-> IF loading_function = "load_json" THEN "JSONDecodeError"
                  ELSE "YAMLError",
          data |-> <<>>]
    ELSE LET loaded == ParsedContent(kind, place) IN
         IF ~dflt THEN [exc |-> "", data |-> loaded]
         ELSE IF loaded = <<>>
              THEN [exc |-> "AttributeError", data |-> <<>>]
              ELSE LET last_key == Last(DictKeyList(loaded[1])) IN
                   [exc |-> "",
                    data |-> [i \in DOMAIN loaded |->
                                << <<S("y"), DictGet(loaded[i], last_key)>>,
                                   <<S("x"), i - 1>> >>]]

\* _parse_csv once the file is open.  With default_plot every row of
\* csv.reader gives a pair whose x is the index of the row among all rows,
\* a first row of several columns being skipped; a blank row fails the
\* assertion.  Without it, the rows of a DictReader.
RECURSIVE ParseCsvDefault(_, _, _)
ParseCsvDefault(rows, index, acc) ==
    IF index >= Len(rows) THEN [exc |-> "", data |-> acc]
    ELSE LET row == rows[index + 1] IN
         IF Len(row) < 1 THEN [exc |-> "AssertionError", data |-> <<>>]
         ELSE IF index = 0 /\ Len(row) > 1
              THEN ParseCsvDefault(rows, index + 1, acc)
              ELSE ParseCsvDefault(rows, index + 1,
                      Append(acc, << <<S("y"), Last(row)>>,
                                     <<S("x"), index>> >>))

_parse_csv(lines, dflt, delimiter) ==
    IF dflt THEN ParseCsvDefault(csv_reader(lines, delimiter), 0, <<>>)
    ELSE [exc |-> "", data |-> DictReaderFromHeader(lines, delimiter).rows]

\* tree.open(datafile, "r") in _parse and _parse_csv: the failure of the
\* open, or what the parser gives
OpenAndParse(kind, parsed) ==
    IF kind = "absent"
    THEN [exc |-> "FileNotFoundError", data |-> <<>>, opened |-> TRUE]
    ELSE IF kind = "ioerror"
         THEN [exc |-> "OSError", data |-> <<>>, opened |-> TRUE]
         ELSE [exc |-> parsed.exc, data |-> parsed.data, opened |-> TRUE]

\* _load_from_tree: the parser of the extension of the lower-cased name;
\* another extension is refused before the file is opened.  kind is what
\* the tree holds for the file and place the tree.  opened tells whether
\* tree.open was reached.
_load_from_tree(file, kind, place, dflt) ==
    LET extension == Lower(file.ext) IN
    IF extension = ".json"
    THEN OpenAndParse(kind, _parse("load_json", kind, place, dflt))
    ELSE IF extension = ".csv"
    THEN OpenAndParse(kind, _parse_csv(CsvContent(kind, place, ","),
                                       dflt, ","))
    ELSE IF extension = ".tsv"
    THEN OpenAndParse(kind, _parse_csv(CsvContent(kind, place, TAB),
                                       dflt, TAB))
    ELSE IF extension = ".yaml"
    THEN OpenAndParse(kind, _parse("load_yaml", kind, place, dflt))
    ELSE [exc |-> "PlotMetricTypeError", data |-> <<>>, opened |-> FALSE]

\* `revision is WORKSPACE_REVISION_NAME`: the same object, not an equal text
IsWorkspaceName(rev) == rev = WORKSPACE_REVISION_NAME

\* the tree a revision is read from: repo.tree, else the revision of that
\* name in the repository
PlaceOf(rev) == IF IsWorkspaceName(rev) THEN WorkingTree ELSE RevName(rev)

\* what that tree holds for the data file; the file is not found where the
\* repository has no such revision
ContentAt(trees, rev) ==
    IF PlaceOf(rev) \in Places THEN trees[PlaceOf(rev)] ELSE "absent"

_load_from_revision_plot_py(file, trees, rev, dflt) ==
    LET r == _load_from_tree(file, ContentAt(trees, rev), PlaceOf(rev),
                             dflt) IN
    IF r.exc = "FileNotFoundError"
    THEN [r EXCEPT !.exc = "NoMetricOnRevisionError"]
    ELSE IF r.exc # "" THEN r
         ELSE [r EXCEPT !.data = TagRecords(r.data, RevName(rev))]

\* (mutant) HEAD put first for one given revision too
DefaultRevisions_head_for_one(revs, isDirty) ==
    IF Len(revs) <= 1
    THEN [revs |-> (IF isDirty THEN <<"HEAD">> ELSE <<>>) \o revs
                       \o <<WORKSPACE_REVISION_NAME>>,
          queries |-> 1]
    ELSE [revs |-> revs, queries |-> 0]

\* lines 142-145: the defaulting of the revisions list, in place.
\* Gives the list and the number of is_dirty() calls.
DefaultRevisions(revs, isDirty) ==
    IF Len(revs) <= 1
    THEN [revs |-> (IF Len(revs) = 0 /\ isDirty THEN Append(revs, "HEAD")
                    ELSE revs) \o <<WORKSPACE_REVISION_NAME>>,
          queries |-> IF Len(revs) = 0 THEN 1 ELSE 0]
    ELSE [revs |-> revs, queries |-> 0]

\* ------------------------------------------------------------------------
\* dvc/repo/plot/data.py
\* ------------------------------------------------------------------------
\* plot_data: a PlotData object of the class the extension of the
\* lower-cased name chooses.  Nothing is parsed here: PlotData.raw is
\* evaluated on first use.  content is what was read, place where.
PlotDataObject(cls, file, rev, kind, place, delimiter) ==
    [exc |-> "",
     data |-> <<[cls |-> cls, filename |-> file, revision |-> RevName(rev),
                 content |-> kind, place |-> place,
                 delimiter |-> delimiter]>>,
     opened |-> TRUE]

plot_data(file, rev, kind, place) ==
    LET extension == Lower(file.ext) IN
    IF extension = ".json"
    THEN PlotDataObject("JSONPlotData", file, rev, kind, place, "")
    ELSE IF extension = ".csv"
    THEN PlotDataObject("CSVPlotData", file, rev, kind, place, ",")
    ELSE IF extension = ".tsv"
    THEN PlotDataObject("CSVPlotData", file, rev, kind, place, TAB)
    ELSE IF extension = ".yaml"
    THEN PlotDataObject("YAMLPLotData", file, rev, kind, place, "")
    ELSE [exc |-> "PlotMetricTypeError", data |-> <<>>, opened |-> TRUE]

\* (mutant) the not-found error of the storage is not caught
_load_from_revision_data_py_uncaught(file, trees, rev) ==
    LET kind == ContentAt(trees, rev) IN
    IF kind = "absent"
    THEN [exc |-> "PathMissingError", data |-> <<>>, opened |-> TRUE]
    ELSE IF kind = "ioerror"
         THEN [exc |-> "OSError", data |-> <<>>, opened |-> TRUE]
         ELSE plot_data(file, rev, kind, PlaceOf(rev))

\* _load_from_revision: the content is read first, from repo.tree or with
\* dvc.api.open at the revision, then plot_data.
_load_from_revision_data_py(file, trees, rev) ==
    LET kind == ContentAt(trees, rev) IN
    IF kind = "absent"
    THEN [exc |-> "NoMetricOnRevisionError", data |-> <<>>, opened |-> TRUE]
    ELSE IF kind = "ioerror"
         THEN [exc |-> "OSError", data |-> <<>>, opened |-> TRUE]
         ELSE plot_data(file, rev, kind, PlaceOf(rev))

\* _filter_fields.  fieldnames None and [] behave alike here and are both
\* modelled as <<>>.  data_points in the result is the argument list as the
\* call leaves it (the call works on copies).
RemoveFirst(seq, k) ==
    IF \E i \in DOMAIN seq : seq[i] = k
    THEN LET at == CHOOSE i \in DOMAIN seq :
                      seq[i] = k /\ \A j \in 1..(i - 1) : seq[j] # k
         IN SubSeq(seq, 1, at - 1) \o SubSeq(seq, at + 1, Len(seq))
    ELSE seq

RECURSIVE RemoveEach(_, _)
RemoveEach(seq, keys) ==
    IF keys = {} THEN seq
    ELSE LET k == CHOOSE x \in keys : TRUE
         IN RemoveEach(RemoveFirst(seq, k), keys \ {k})

\* a record without the keys of to_del
DelKeys(d, to_del) == SelectSeq(d, LAMBDA p : p[1] \notin to_del)

RECURSIVE FilterLoop(_, _, _, _, _)
FilterLoop(data_points, i, new_data, fieldnames, fields) ==
    IF i > Len(data_points)
    THEN [exc |-> "", data |-> new_data, fieldnames |-> fieldnames,
          data_points |-> data_points]
    ELSE LET keys == DictKeys(data_points[i]) IN
         IF (keys \cap fields) # fields
         \* the message joins the keys: a key that is None is no text
         THEN [exc |-> IF NoneKey \in keys THEN "TypeError"
                       ELSE "DvcException",
               data |-> <<>>,
               fieldnames |-> fieldnames, data_points |-> data_points]
         ELSE LET to_del == keys \ fields IN
              FilterLoop(data_points, i + 1,
                         Append(new_data, DelKeys(data_points[i], to_del)),
                         RemoveEach(fieldnames, to_del), fields)

_filter_fields(data_points, fieldnames, fields) ==
    IF fields = {}
    THEN [exc |-> "", data |-> data_points, fieldnames |-> fieldnames,
          data_points |-> data_points]
    ELSE FilterLoop(data_points, 1, <<>>, fieldnames, fields)

\* _transform_to_default_data
_transform_to_default_data(data_points, fieldnames, dflt) ==
    IF ~dflt
    THEN [exc |-> "", data |-> data_points, fieldnames |-> fieldnames]
    ELSE IF fieldnames = <<>> /\ data_points = <<>>
    THEN [exc |-> "AttributeError", data |-> <<>>, fieldnames |-> fieldnames]
    ELSE LET y == IF fieldnames # <<>> THEN Last(fieldnames)
                  ELSE Last(DictKeyList(data_points[1]))
         IN IF \E i \in DOMAIN data_points : y \notin DictKeys(data_points[i])
            THEN [exc |-> "KeyError", data |-> <<>>, fieldnames |-> fieldnames]
            ELSE [exc |-> "",
                  data |-> [i \in DOMAIN data_points |->
                              << <<S("x"), i - 1>>,
                                 <<S("y"), DictGet(data_points[i], y)>> >>],
                  fieldnames |-> <<S("x"), S("y")>>]

\* PlotData.to_datapoints on a raw value that is a list of records (there
\* _apply_path and _find_data of JSONPlotData hand the list on unchanged):
\* the processors in order, then the revision tag on every record.
to_datapoints(raw, fieldnames, revision, fields, dflt) ==
    LET f == _filter_fields(raw, fieldnames, fields) IN
    IF f.exc # "" THEN [exc |-> f.exc, data |-> <<>>]
    ELSE LET t == _transform_to_default_data(f.data, f.fieldnames, dflt) IN
         IF t.exc # "" THEN [exc |-> t.exc, data |-> <<>>]
         ELSE [exc |-> "", data |-> TagRecords(t.data, revision)]

\* JSONPlotData.raw followed by to_datapoints, for a PlotData object
to_datapoints_json(pd, fields, dflt) ==
    IF pd.content = "malformed" THEN [exc |-> "JSONDecodeError", data |-> <<>>]
    ELSE to_datapoints(ParsedContent(pd.content, pd.place), <<>>,
                       pd.revision, fields, dflt)

\* Parsed JSON values for _find_data: a scalar, a list of values or a
\* mapping (in key order) of values.  Every value has the same three fields
\* and the items of a list are paired with an empty key, so that values of
\* different kinds stay comparable.
JScalar(text) == [t |-> "scalar", s |-> text, items |-> <<>>]
JList(elems) ==
    [t |-> "list", s |-> "",
     items |-> [i \in DOMAIN elems |-> << <<>>, elems[i] >>]]
JDict(pairs) == [t |-> "dict", s |-> "", items |-> pairs]

\* the entries of a list value
Entries(l) == [i \in DOMAIN l.items |-> l.items[i][2]]

\* _lists: the list-valued members of a mapping, those of a nested mapping
\* at the place of that mapping; a list is not searched for further lists
RECURSIVE _lists(_)
_lists(dictionary) ==
    Concat([i \in DOMAIN dictionary.items |->
              LET value == dictionary.items[i][2] IN
              IF value.t = "dict" THEN _lists(value)
              ELSE IF value.t = "list" THEN <<value>>
              ELSE <<>>])

\* the loop of _find_data over the lists ls, from the i-th on
RECURSIVE FindLoop(_, _, _, _)
FindLoop(ls, i, fieldnames, fields) ==
    IF i > Len(ls)
    THEN [exc |-> "PlotDataStructureError", data |-> JScalar(""),
          fieldnames |-> <<>>]
    ELSE LET l == Entries(ls[i]) IN
         IF \A j \in DOMAIN l : l[j].t = "dict"
         THEN IF l = <<>>
              \* first(l) is None: None.keys()
              THEN [exc |-> "AttributeError", data |-> JScalar(""),
                    fieldnames |-> <<>>]
              ELSE IF (DictKeys(l[1].items) \cap fields) = fields
              THEN [exc |-> "", data |-> ls[i],
                    fieldnames |-> SelectSeq(fieldnames,
                                             LAMBDA f : f \in fields)]
              ELSE FindLoop(ls, i + 1, fieldnames, fields)
         ELSE FindLoop(ls, i + 1, fieldnames, fields)

\* _find_data.  fieldnames None and [] are both <<>>.
_find_data(data_arg, fieldnames, fields) ==
    IF fields = {} \/ data_arg.t # "dict"
    THEN [exc |-> "", data |-> data_arg, fieldnames |-> fieldnames]
    ELSE FindLoop(_lists(data_arg), 1, fieldnames, fields)

\* CSVPlotData.raw: the first row is counted by a csv.reader with the
\* default delimiter, the comma, whatever self.delimiter is.
CSVPlotData_raw(lines, delimiter) ==
    IF lines = <<>>
    THEN [exc |-> "TypeError", fieldnames |-> <<>>, rows |-> <<>>]
    ELSE LET first_row == csv_row(lines[1], ",")
             reader == IF Len(first_row) = 1
                       THEN DictReaderWithNames(lines, delimiter,
                                                <<S("value")>>)
                       ELSE DictReaderFromHeader(lines, delimiter)
         IN [exc |-> "", fieldnames |-> reader.fieldnames,
             rows |-> reader.rows]

\* plot_data: the delimiter CSVPlotData is built with
plot_data_delimiter(ext) == IF ext = ".tsv" THEN TAB ELSE ","

\* CSVPlotData.raw followed by to_datapoints, for a PlotData object
to_datapoints_csv(pd, fields, dflt) ==
    LET r == CSVPlotData_raw(CsvContent(pd.content, pd.place, pd.delimiter),
                             pd.delimiter) IN
    IF r.exc # "" THEN [exc |-> r.exc, data |-> <<>>]
    ELSE to_datapoints(r.rows, r.fieldnames, pd.revision, fields, dflt)

\* YAMLPLotData.raw is yaml.parse(..): the parsing events of the content,
\* which are no records.  to_datapoints fails on the first of them: in
\* _filter_fields (no keys()), in _transform_to_default_data (no keys())
\* or at the revision tag (no item assignment).
to_datapoints_yaml(pd, fields, dflt) ==
    IF fields # {} \/ dflt THEN [exc |-> "AttributeError", data |-> <<>>]
    ELSE [exc |-> "TypeError", data |-> <<>>]

\* to_datapoints of the PlotData object pd
PlotData_to_datapoints(pd, fields, dflt) ==
    IF pd.cls = "JSONPlotData" THEN to_datapoints_json(pd, fields, dflt)
    ELSE IF pd.cls = "CSVPlotData" THEN to_datapoints_csv(pd, fields, dflt)
    ELSE to_datapoints_yaml(pd, fields, dflt)

\* ------------------------------------------------------------------------
\* dvc/plot.py
\* ------------------------------------------------------------------------
\* DefaultTemplate.DEFAULT_CONTENT, which dump() writes to default.json and
\* fill reads back (JSON keeps these values as they are)
DEFAULT_CONTENT ==
    << <<S("$schema"), "https://vega.github.io/schema/vega-lite/v4.json">>,
       <<S("title"), "">>,
       <<S("data"), << <<S("values"), <<>> >> >> >>,
       <<S("mark"), << <<S("type"), "line">> >> >>,
       <<S("encoding"),
         << <<S("x"), << <<S("field"), "x">>,
                         <<S("type"), "quantitative">> >> >>,
            <<S("y"), << <<S("field"), "y">>,
                         <<S("type"), "quantitative">> >> >>,
            <<S("color"), << <<S("field"), "revision">>,
                             <<S("type"), "nominal">> >> >> >> >> >>

\* DefaultTemplate.fill: the assertion on the keys of every record, then
\* the "data" entry of the template replaced
DefaultTemplate_fill(points) ==
    IF \E i \in DOMAIN points :
          DictKeys(points[i]) # {S("x"), S("y"), S("revision")}
    THEN [exc |-> "AssertionError", doc |-> <<>>]
    ELSE [exc |-> "",
          doc |-> DictSet(DEFAULT_CONTENT, S("data"),
                          << <<S("values"), points>> >>)]

\* ------------------------------------------------------------------------
\* _load_from_revisions, both modules, as a state machine
\* ------------------------------------------------------------------------
CsvIdle ==
    /\ cpc = "idle"
    /\ cLines = <<>>
    /\ cDelim = ","
    /\ cRaw = [exc |-> "", fieldnames |-> <<>>, rows |-> <<>>]
    /\ cPoints = [exc |-> "", data |-> <<>>]
    /\ cPlotPy = [exc |-> "", data |-> <<>>]
    /\ cPlotPyRows = [exc |-> "", data |-> <<>>]

FillIdle ==
    /\ tpc = "idle"
    /\ tRaw = <<>>
    /\ tRev = ""
    /\ tTagKey = ""
    /\ tPoints = [exc |-> "", data |-> <<>>]
    /\ tOut = [exc |-> "", doc |-> <<>>]

FindIdle ==
    /\ gpc = "idle"
    /\ gData = JScalar("")
    /\ gNames = <<>>
    /\ gFields = {}
    /\ gOut = [exc |-> "", data |-> JScalar(""), fieldnames |-> <<>>]

NoDatafile == [stem |-> "", ext |-> ""]

PlotIdle ==
    /\ ppc = "idle"
    /\ pDatafile = NoDatafile
    /\ pRevisions = <<>>
    /\ pTemplate = ""
    /\ pExists = FALSE
    /\ pPlaceholders = {}
    /\ pTodo = {}
    /\ pLoads = <<>>
    /\ pFilled = FALSE
    /\ pResult = NoResult

FilterIdle ==
    /\ fpc = "idle"
    /\ fArg = <<>>
    /\ fPoints = <<>>
    /\ fNames = <<>>
    /\ fFields = {}
    /\ fOut = [exc |-> "", data |-> <<>>]
    /\ fOut2 = [exc |-> "", data |-> <<>>]

LoaderInit ==
    /\ impl \in {"plot_py", "data_py"}
    /\ datafile \in DataFiles
    /\ default_plot \in (IF impl = "plot_py" THEN BOOLEAN ELSE {FALSE})
    /\ dirty \in (IF impl = "plot_py" THEN BOOLEAN ELSE {FALSE})
    /\ callerRevs \in RevisionLists
    /\ revisions = callerRevs
    /\ tree \in [Places -> ContentKinds]
    \* only the content at the places the loop will ask for varies
    /\ \A p \in Places :
          (\A l \in Range(IF impl = "plot_py"
                           THEN DefaultRevisions(callerRevs, dirty).revs
                           ELSE callerRevs) :
              p # PlaceOf(l)
              /\ ~(RevName(l) = WORKSPACE_REVISION_NAME /\ p = WorkingTree))
          => tree[p] = "absent"
    /\ pc = "entry"
    /\ idx = 0
    /\ data = <<>>
    /\ exceptions = <<>>
    /\ warnings = <<>>
    /\ errorsLogged = <<>>
    /\ reads = <<>>
    /\ dirtyQueries = 0
    /\ result = NoResult
    /\ FilterIdle
    /\ CsvIdle
    /\ FillIdle
    /\ FindIdle
    /\ PlotIdle

\* data = []; exceptions = []; and, in plot.py, the defaulting of revisions
LoadEnter ==
    /\ pc = "entry"
    /\ pc' = "loop"
    /\ LET d == DefaultRevisions(revisions, dirty) IN
         /\ revisions' = IF impl = "plot_py" THEN d.revs ELSE revisions
         /\ dirtyQueries' = IF impl = "plot_py"
                            THEN dirtyQueries + d.queries ELSE dirtyQueries
    /\ data' = <<>>
    /\ exceptions' = <<>>
    /\ UNCHANGED <<impl, datafile, default_plot, dirty, tree, callerRevs, idx,
                   warnings, errorsLogged, reads, result>>
    /\ UNCHANGED <<filterVars, plotVars, csvVars, fillVars, findVars>>

\* One iteration of `for rev in revisions`, with its try/except.
LoadIter ==
    /\ pc = "loop"
    /\ idx < Len(revisions)
    /\ LET rev == revisions[idx + 1]
           r == IF impl = "plot_py"
                THEN _load_from_revision_plot_py(datafile, tree, rev,
                                                 default_plot)
                ELSE _load_from_revision_data_py(datafile, tree, rev)
       IN
         /\ idx' = idx + 1
         /\ reads' = IF r.opened THEN Append(reads, PlaceOf(rev)) ELSE reads
         /\ IF r.exc = ""
            THEN /\ data' = data \o r.data
                 /\ UNCHANGED <<exceptions, errorsLogged, pc, result>>
            ELSE IF r.exc = "NoMetricOnRevisionError"
            THEN /\ exceptions' = Append(exceptions, rev)
                 /\ UNCHANGED <<data, errorsLogged, pc, result>>
            ELSE /\ errorsLogged' =
                       IF impl = "data_py" /\ r.exc # "PlotMetricTypeError"
                       THEN Append(errorsLogged, RevName(rev))
                       ELSE errorsLogged
                 /\ pc' = "done"
                 /\ result' = Raised(r.exc)
                 /\ UNCHANGED <<data, exceptions>>
    /\ UNCHANGED <<impl, datafile, default_plot, dirty, tree, callerRevs,
                   revisions, warnings, dirtyQueries>>
    /\ UNCHANGED <<filterVars, plotVars, csvVars, fillVars, findVars>>

\* After the loop: raise NoMetricInHistoryError, or warn and return data.
LoadFinish ==
    /\ pc = "loop"
    /\ idx = Len(revisions)
    /\ pc' = "done"
    /\ IF data = <<>> /\ exceptions # <<>>
       THEN /\ result' = Raised("NoMetricInHistoryError")
            /\ UNCHANGED warnings
       ELSE /\ warnings' = warnings \o
                           [i \in DOMAIN exceptions |-> RevName(exceptions[i])]
            /\ result' = Returned(data)
    /\ UNCHANGED <<impl, datafile, default_plot, dirty, tree, callerRevs,
                   revisions, idx, data, exceptions, errorsLogged, reads,
                   dirtyQueries>>
    /\ UNCHANGED <<filterVars, plotVars, csvVars, fillVars, findVars>>

LoaderNext == LoadEnter \/ LoadIter \/ LoadFinish

\* ------------------------------------------------------------------------
\* _filter_fields applied to a record list, then to its own output
\* ------------------------------------------------------------------------
MaxRecs == 2

\* records over x, y, z, in that key order; and records whose last key is
\* None, as csv.DictReader makes of a row longer than the header
FilterRecords ==
    {SelectSeq(<< <<S("x"), vx>>, <<S("y"), "5">>, <<S("z"), "6">>,
                  <<NoneKey, ListVal(<<S("7")>>)>> >>,
               LAMBDA p : p[1] \in ks) :
        vx \in {"1", "2"},
        ks \in (SUBSET {S("x"), S("y"), S("z")}) \cup
               {{S("x"), NoneKey}, {S("x"), S("y"), NoneKey}}}

FilterFieldSets == (SUBSET {S("x"), S("y"), S("w")}) \ {{}}

LoaderIdle ==
    /\ impl = "data_py"
    /\ datafile = [stem |-> "metric", ext |-> ".json"]
    /\ default_plot = FALSE
    /\ dirty = FALSE
    /\ tree = [p \in Places |-> "absent"]
    /\ callerRevs = <<>>
    /\ revisions = <<>>
    /\ pc = "idle"
    /\ idx = 0
    /\ data = <<>>
    /\ exceptions = <<>>
    /\ warnings = <<>>
    /\ errorsLogged = <<>>
    /\ reads = <<>>
    /\ dirtyQueries = 0
    /\ result = NoResult

FilterInit ==
    /\ fpc = "ready"
    /\ fArg \in SeqsUpTo(FilterRecords, MaxRecs)
    /\ fPoints = fArg
    /\ fNames \in {<<>>, <<S("x"), S("y"), S("z")>>}
    /\ fFields \in FilterFieldSets
    /\ fOut = [exc |-> "", data |-> <<>>]
    /\ fOut2 = [exc |-> "", data |-> <<>>]
    /\ LoaderIdle
    /\ PlotIdle
    /\ CsvIdle
    /\ FillIdle
    /\ FindIdle

\* new_data, fieldnames = _filter_fields(data_points, fieldnames, fields)
FilterApply ==
    /\ fpc = "ready"
    /\ LET r == _filter_fields(fPoints, fNames, fFields) IN
         /\ fOut' = [exc |-> r.exc, data |-> r.data,
                     fieldnames |-> r.fieldnames]
         /\ fPoints' = r.data_points
    /\ fpc' = "filtered"
    /\ UNCHANGED <<fArg, fNames, fFields, fOut2>>
    /\ UNCHANGED <<loaderVars, plotVars, csvVars, fillVars, findVars>>

\* the same call on the records the first call returned
FilterAgain ==
    /\ fpc = "filtered"
    /\ fOut.exc = ""
    /\ LET r == _filter_fields(fOut.data, fOut.fieldnames, fFields) IN
         fOut2' = [exc |-> r.exc, data |-> r.data,
                   fieldnames |-> r.fieldnames]
    /\ fpc' = "refiltered"
    /\ UNCHANGED <<fArg, fPoints, fNames, fFields, fOut>>
    /\ UNCHANGED <<loaderVars, plotVars, csvVars, fillVars, findVars>>

FilterNext == FilterApply \/ FilterAgain

\* ------------------------------------------------------------------------
\* plot() of dvc/repo/plot.py, around the loader of the same module
\* ------------------------------------------------------------------------
MaxPlotRevs == 2

\* repo.plot_templates.default_template: DefaultTemplate.TEMPLATE_NAME in
\* the plot directory of .dvc
DEFAULT_TEMPLATE == ".dvc/plot/default.json"

\* the template arguments of plot(): none, or a name
TemplateArgs == {"", "default.json", "custom.json"}

\* repo.plot_templates.get_template: the file of that name in the plot
\* directory of .dvc
get_template(template) ==
    IF template = "default.json" THEN DEFAULT_TEMPLATE
    ELSE ".dvc/plot/custom.json"

TemplateSources == {[stem |-> "a", ext |-> ".json"],
                    [stem |-> "b", ext |-> ".json"]}
ExplicitDatafile == [stem |-> "d", ext |-> ".json"]

\* the content by place, the same for every data source
PlotTrees ==
    {[p \in Places |-> "records"],
     [p \in Places |-> IF p = "v1" THEN "absent" ELSE "records"],
     [p \in Places |-> "absent"]}

\* _evaluate_templatepath: the default template for no template argument,
\* the argument itself where it is the path of a file (exists), else the
\* template of that name
_evaluate_templatepath(template, exists) ==
    IF template = "" THEN DEFAULT_TEMPLATE
    ELSE IF exists THEN template
         ELSE get_template(template)

\* (mutant) the explicit data file replaces the sources without the check
_parse_template_unchecked(placeholders, file) ==
    IF file # NoDatafile
    THEN [exc |-> "", datafiles |-> {file}]
    ELSE [exc |-> "", datafiles |-> placeholders]

\* _parse_template: placeholders is what parse_data_placeholders found
_parse_template(placeholders, file) ==
    IF file # NoDatafile
    THEN IF Cardinality(placeholders) > 1
         THEN [exc |-> "TooManyDataSourcesError", datafiles |-> {}]
         ELSE [exc |-> "", datafiles |-> {file}]
    ELSE [exc |-> "", datafiles |-> placeholders]

PlotInit ==
    /\ ppc = "start"
    /\ pDatafile \in {NoDatafile, ExplicitDatafile}
    /\ pTemplate \in TemplateArgs
    /\ pExists \in (IF pTemplate = "" THEN {FALSE} ELSE BOOLEAN)
    /\ pPlaceholders \in SUBSET TemplateSources
    /\ pTodo = {}
    /\ pLoads = <<>>
    /\ pFilled = FALSE
    /\ pResult = NoResult
    /\ impl = "plot_py"
    /\ datafile = NoDatafile
    /\ default_plot = FALSE
    /\ dirty \in BOOLEAN
    /\ tree \in PlotTrees
    /\ callerRevs = <<>>
    /\ revisions \in SeqsUpTo(CallerLabels, MaxPlotRevs)
    /\ pRevisions = revisions
    /\ pc = "idle"
    /\ idx = 0
    /\ data = <<>>
    /\ exceptions = <<>>
    /\ warnings = <<>>
    /\ errorsLogged = <<>>
    /\ reads = <<>>
    /\ dirtyQueries = 0
    /\ result = NoResult
    /\ FilterIdle
    /\ CsvIdle
    /\ FillIdle
    /\ FindIdle

\* lines 179-189: the argument check, the template path, default_plot and
\* the data sources of the template
PlotStart ==
    /\ ppc = "start"
    /\ IF pDatafile = NoDatafile /\ pTemplate = ""
       THEN /\ pResult' = Raised("NoDataNorTemplateProvided")
            /\ ppc' = "done"
            /\ UNCHANGED <<pTodo, default_plot>>
       ELSE LET template_path == _evaluate_templatepath(pTemplate, pExists)
                t == _parse_template(pPlaceholders, pDatafile)
            IN /\ default_plot' = (template_path = DEFAULT_TEMPLATE)
               /\ IF t.exc # ""
                  THEN /\ pResult' = Raised(t.exc)
                       /\ ppc' = "done"
                       /\ UNCHANGED pTodo
                  ELSE /\ pTodo' = t.datafiles
                       /\ ppc' = "loading"
                       /\ UNCHANGED pResult
    /\ UNCHANGED <<pDatafile, pRevisions, pTemplate, pExists,
                   pPlaceholders, pLoads,
                   pFilled>>
    /\ UNCHANGED <<impl, datafile, dirty, tree, callerRevs, revisions, pc,
                   idx, data, exceptions, warnings, errorsLogged, reads,
                   dirtyQueries, result>>
    /\ UNCHANGED <<filterVars, csvVars, fillVars, findVars>>

\* lines 190-193: the call of _load_from_revisions for the next data source
\* of the set, with the one revisions list of this plot() call
PlotLoadBegin ==
    /\ ppc = "loading"
    /\ pc = "idle"
    /\ \E file \in pTodo :
         /\ datafile' = file
         /\ pTodo' = pTodo \ {file}
    /\ callerRevs' = revisions
    /\ pc' = "entry"
    /\ idx' = 0
    /\ result' = NoResult
    /\ UNCHANGED <<impl, default_plot, dirty, tree, revisions, data,
                   exceptions, warnings, errorsLogged, reads, dirtyQueries>>
    /\ UNCHANGED <<ppc, pDatafile, pRevisions, pTemplate, pExists, pPlaceholders,
                   pLoads, pFilled, pResult>>
    /\ UNCHANGED <<filterVars, csvVars, fillVars, findVars>>

\* the call returns its data, or its exception leaves plot()
PlotLoadEnd ==
    /\ ppc = "loading"
    /\ pc = "done"
    /\ IF result.kind = "raised"
       THEN /\ pResult' = result
            /\ ppc' = "done"
            /\ UNCHANGED pLoads
       ELSE /\ pLoads' = Append(pLoads, [datafile |-> datafile,
                                         revisions |-> revisions,
                                         data |-> result.value])
            /\ UNCHANGED <<pResult, ppc>>
    /\ pc' = "idle"
    /\ UNCHANGED <<impl, datafile, default_plot, dirty, tree, callerRevs,
                   revisions, idx, data, exceptions, warnings, errorsLogged,
                   reads, dirtyQueries, result>>
    /\ UNCHANGED <<pDatafile, pRevisions, pTemplate, pExists,
                   pPlaceholders, pTodo,
                   pFilled>>
    /\ UNCHANGED <<filterVars, csvVars, fillVars, findVars>>

\* lines 195-199: Template.fill with the data of every source
PlotFill ==
    /\ ppc = "loading"
    /\ pc = "idle"
    /\ pTodo = {}
    /\ pFilled' = TRUE
    /\ pResult' = Returned(pLoads)
    /\ ppc' = "done"
    /\ UNCHANGED <<pDatafile, pRevisions, pTemplate, pExists,
                   pPlaceholders, pTodo,
                   pLoads>>
    /\ UNCHANGED loaderVars
    /\ UNCHANGED <<filterVars, csvVars, fillVars, findVars>>

PlotNext ==
    \/ PlotStart
    \/ PlotLoadBegin
    \/ PlotLoadEnd
    \/ PlotFill
    \/ LoaderNext

\* ------------------------------------------------------------------------
\* The CSV/TSV parsers on a content
\* ------------------------------------------------------------------------
MaxLines == 2
MaxLineLen == 3

Alphabet == {"a", "1", ",", TAB}

CsvLines == SeqsUpTo(Alphabet, MaxLineLen)

CsvInit ==
    /\ cpc = "ready"
    /\ cLines \in SeqsUpTo(CsvLines, MaxLines)
    /\ cDelim \in {",", TAB}
    /\ cRaw = [exc |-> "", fieldnames |-> <<>>, rows |-> <<>>]
    /\ cPoints = [exc |-> "", data |-> <<>>]
    /\ cPlotPy = [exc |-> "", data |-> <<>>]
    /\ cPlotPyRows = [exc |-> "", data |-> <<>>]
    /\ LoaderIdle
    /\ FilterIdle
    /\ PlotIdle
    /\ FillIdle
    /\ FindIdle

\* CSVPlotData(...).raw, for the .csv or .tsv file
CsvRaw ==
    /\ cpc = "ready"
    /\ cRaw' = CSVPlotData_raw(cLines,
                  plot_data_delimiter(IF cDelim = TAB THEN ".tsv" ELSE ".csv"))
    /\ cpc' = "raw"
    /\ UNCHANGED <<cLines, cDelim, cPoints, cPlotPy, cPlotPyRows>>
    /\ UNCHANGED <<loaderVars, filterVars, plotVars, fillVars, findVars>>

\* to_datapoints(default_plot=True) of the same PlotData
CsvToDatapoints ==
    /\ cpc = "raw"
    /\ cPoints' = IF cRaw.exc # "" THEN [exc |-> cRaw.exc, data |-> <<>>]
                  ELSE to_datapoints(cRaw.rows, cRaw.fieldnames,
                                     WORKSPACE_REVISION_NAME, {}, TRUE)
    /\ cpc' = "points"
    /\ UNCHANGED <<cLines, cDelim, cRaw, cPlotPy, cPlotPyRows>>
    /\ UNCHANGED <<loaderVars, filterVars, plotVars, fillVars, findVars>>

\* _parse_csv of dvc/repo/plot.py on the same content, in both modes
CsvParsePlotPy ==
    /\ cpc = "points"
    /\ cPlotPy' = _parse_csv(cLines, TRUE, cDelim)
    /\ cPlotPyRows' = _parse_csv(cLines, FALSE, cDelim)
    /\ cpc' = "parsed"
    /\ UNCHANGED <<cLines, cDelim, cRaw, cPoints>>
    /\ UNCHANGED <<loaderVars, filterVars, plotVars, fillVars, findVars>>

CsvNext == CsvRaw \/ CsvToDatapoints \/ CsvParsePlotPy

\* ------------------------------------------------------------------------
\* DefaultTemplate.fill on the data points of a data file
\* ------------------------------------------------------------------------
MaxFillRecs == 2

FillRecords ==
    {SelectSeq(<< <<S("k"), "0">>, <<S("m"), vm>> >>,
               LAMBDA p : p[1] \in ks) :
        vm \in {"1", "2"}, ks \in {{S("m")}, {S("k"), S("m")}}}

\* the records with the key old renamed to new
RenameKey(recs, old, new) ==
    [i \in DOMAIN recs |->
        [j \in DOMAIN recs[i] |->
            IF recs[i][j][1] = old THEN <<new, recs[i][j][2]>>
            ELSE recs[i][j]]]

FillInit ==
    /\ tpc = "ready"
    /\ tRaw \in SeqsUpTo(FillRecords, MaxFillRecs)
    /\ tRev \in {WORKSPACE_REVISION_NAME, "v1"}
    /\ tTagKey \in {S("rev"), S("revision")}
    /\ tPoints = [exc |-> "", data |-> <<>>]
    /\ tOut = [exc |-> "", doc |-> <<>>]
    /\ LoaderIdle
    /\ FilterIdle
    /\ PlotIdle
    /\ CsvIdle
    /\ FindIdle

\* The data handed to fill: what to_datapoints gives in default-plot mode
\* (tag key "rev"), or the same records with the tag under "revision".
FillLoad ==
    /\ tpc = "ready"
    /\ LET r == to_datapoints(tRaw, <<>>, tRev, {}, TRUE) IN
         tPoints' = IF r.exc # "" THEN r
                    ELSE [r EXCEPT !.data = RenameKey(r.data, S("rev"),
                                                       tTagKey)]
    /\ tpc' = "loaded"
    /\ UNCHANGED <<tRaw, tRev, tTagKey, tOut>>
    /\ UNCHANGED <<loaderVars, filterVars, plotVars, csvVars, findVars>>

\* DefaultTemplate(dvc_dir).fill(data)
FillTemplate ==
    /\ tpc = "loaded"
    /\ tPoints.exc = ""
    /\ tOut' = DefaultTemplate_fill(tPoints.data)
    /\ tpc' = "filled"
    /\ UNCHANGED <<tRaw, tRev, tTagKey, tPoints>>
    /\ UNCHANGED <<loaderVars, filterVars, plotVars, csvVars, findVars>>

FillNext == FillLoad \/ FillTemplate

\* ------------------------------------------------------------------------
\* _find_data on a parsed JSON value
\* ------------------------------------------------------------------------
MaxMembers == 2
MaxEntries == 2

\* the entries a list is made of: a scalar, or a record over x, y
FindEntries ==
    {JScalar("1"),
     JDict(<< <<S("x"), JScalar("1")>> >>),
     JDict(<< <<S("y"), JScalar("2")>> >>),
     JDict(<< <<S("x"), JScalar("1")>>, <<S("y"), JScalar("2")>> >>)}

FindLists == {JList(es) : es \in SeqsUpTo(FindEntries, MaxEntries)}

\* the members of a nested mapping, and those of the mapping itself
InnerValues == {JScalar("1")} \cup FindLists
NestedDicts ==
    {JDict(<<>>)} \cup {JDict(<< <<S("c"), v>> >>) : v \in InnerValues}
MemberValues == InnerValues \cup NestedDicts

MemberKeys == <<S("a"), S("b"), S("d")>>

\* mappings of up to MaxMembers members, keyed a, b, .. in that order
FindMappings ==
    UNION {{JDict([i \in 1..k |-> <<MemberKeys[i], vs[i]>>]) :
                vs \in [1..k -> MemberValues]} : k \in 0..MaxMembers}

FindInit ==
    /\ gpc = "ready"
    /\ gData \in FindMappings \cup FindLists
    /\ gNames \in {<<>>, <<S("x"), S("y")>>}
    /\ gFields \in SUBSET {S("x"), S("y")}
    /\ gOut = [exc |-> "", data |-> JScalar(""), fieldnames |-> <<>>]
    /\ LoaderIdle
    /\ FilterIdle
    /\ PlotIdle
    /\ CsvIdle
    /\ FillIdle

\* data, fieldnames = _find_data(data, fieldnames, fields=fields)
FindApply ==
    /\ gpc = "ready"
    /\ gOut' = _find_data(gData, gNames, gFields)
    /\ gpc' = "searched"
    /\ UNCHANGED <<gData, gNames, gFields>>
    /\ UNCHANGED <<loaderVars, filterVars, plotVars, csvVars, fillVars>>

FindNext == FindApply

\* ------------------------------------------------------------------------
\* Specifications
\* ------------------------------------------------------------------------
Init == LoaderInit

Next == LoaderNext

\* the multi-revision loaders
Spec == Init /\ [][Next]_vars

\* _filter_fields
SpecFilter == FilterInit /\ [][FilterNext]_vars

\* plot()
SpecPlot == PlotInit /\ [][PlotNext]_vars

\* the CSV/TSV parsers
SpecCsv == CsvInit /\ [][CsvNext]_vars

\* DefaultTemplate.fill
SpecFill == FillInit /\ [][FillNext]_vars

\* _find_data
SpecFind == FindInit /\ [][FindNext]_vars

\* ------------------------------------------------------------------------
\* Properties of the multi-revision loader
\* ------------------------------------------------------------------------
Supported(file) == Lower(file.ext) \in {".json", ".csv", ".tsv", ".yaml"}

\* The place a revision label stands for: the label workspace, however the
\* string came about, stands for the working tree.
IntendedPlace(rev) ==
    IF RevName(rev) = WORKSPACE_REVISION_NAME THEN WorkingTree
    ELSE RevName(rev)

\* what is at the place the label stands for
IntendedContent(rev) == tree[IntendedPlace(rev)]

\* the file is there and loads / is not there, at revision label rev
ExistsAt(rev) == IntendedContent(rev) \in {"empty", "records"}
AbsentAt(rev) == IntendedContent(rev) = "absent"

\* every workspace label of the sequence is the constant of the module
NoTypedWorkspace == WorkspaceTyped \notin Range(revisions)

\* the texts of a sequence of labels
RevNames(revs) == [i \in DOMAIN revs |-> RevName(revs[i])]

\* the positions of the sequence the loop iterates
Positions == DOMAIN revisions

AbsentRevisions == SelectSeq(revisions, AbsentAt)
FoundRevisions == SelectSeq(revisions, ExistsAt)

\* C1's case: a supported datafile that is found at some revisions of the
\* sequence and not found at all the others
PartialMiss ==
    /\ Supported(datafile)
    /\ revisions # <<>>
    /\ \A i \in Positions : ExistsAt(revisions[i]) \/ AbsentAt(revisions[i])
    /\ \E i \in Positions : ExistsAt(revisions[i])
    \* (the default plot of dvc/repo/plot.py cannot take an empty list)
    /\ ~(impl = "plot_py" /\ default_plot
         /\ \E i \in Positions : IntendedContent(revisions[i]) = "empty")

\* the revisions the returned data comes from
SourceRevisions(value) ==
    IF impl = "data_py"
    THEN {value[i].revision : i \in DOMAIN value}
    ELSE {DictGet(value[i], S("rev")) : i \in DOMAIN value}

\* C1 (as claimed, for both loaders): when the file is found at one revision
\* at least and not found at the others, _load_from_revisions returns, never
\* raises, warns once for each revision without the file, naming it, and no
\* data comes from a revision without the file.
C1_PartialFailureTolerated ==
    (pc = "done" /\ PartialMiss) =>
        /\ result.kind = "returned"
        /\ warnings = RevNames(AbsentRevisions)
        /\ SourceRevisions(result.value) \subseteq
               {RevName(revisions[i]) :
                   i \in {j \in Positions : ExistsAt(revisions[j])}}

\* The same statement for the loader of dvc/repo/plot/data.py alone, which
\* keeps one PlotData per revision found: there it holds, as long as every
\* workspace label is the constant of the module.
C1_HoldsInDataPy ==
    (impl = "data_py" /\ NoTypedWorkspace) => C1_PartialFailureTolerated

\* the file is not found at any revision of the sequence the loop iterates
HistoryWideMiss ==
    /\ revisions # <<>>
    /\ \A i \in Positions : AbsentAt(revisions[i])

\* C2 (as claimed): a history-wide miss ends in NoMetricInHistoryError.
C2_HistoryWideMissRaises ==
    (pc = "done" /\ HistoryWideMiss) =>
        result = Raised("NoMetricInHistoryError")

\* C2 (amended): for a datafile of a supported format, a history-wide miss
\* over the sequence the loop iterates ends in NoMetricInHistoryError with no
\* partial result, raised only once every revision was attempted and each
\* miss recorded; and no NoMetricOnRevisionError ever escapes.
C2_HistoryWideMissRaisesIfSupported ==
    /\ (pc = "done" /\ HistoryWideMiss /\ Supported(datafile)) =>
          /\ result = Raised("NoMetricInHistoryError")
          /\ idx = Len(revisions)
          /\ reads = [i \in Positions |-> PlaceOf(revisions[i])]
          /\ exceptions = revisions
          /\ warnings = <<>>
    /\ (result.exc = "NoMetricInHistoryError") => idx = Len(revisions)
    /\ result.exc \notin {"NoMetricOnRevisionError", "FileNotFoundError"}

C2_Witness ==
    /\ pc = "done"
    /\ HistoryWideMiss
    /\ Supported(datafile)
    /\ Len(revisions) >= 2
    /\ result.exc = "NoMetricInHistoryError"

\* the failure of reading or parsing the content at revision label rev
\* that is not the file being absent ("" when there is none)
OtherFailureAt(rev) ==
    CASE IntendedContent(rev) = "ioerror" -> "OSError"
      [] IntendedContent(rev) = "malformed"
           /\ Lower(datafile.ext) = ".json" -> "JSONDecodeError"
      [] IntendedContent(rev) = "malformed"
           /\ Lower(datafile.ext) = ".yaml" -> "YAMLError"
      [] IntendedContent(rev) \in {"malformed", "empty", "records"}
           /\ ~Supported(datafile) -> "PlotMetricTypeError"
      [] OTHER -> ""

\* the first position of the sequence with such a failure (0: none)
FirstOtherFailure ==
    IF \E i \in Positions : OtherFailureAt(revisions[i]) # ""
    THEN CHOOSE i \in Positions :
            /\ OtherFailureAt(revisions[i]) # ""
            /\ \A j \in 1..(i - 1) : OtherFailureAt(revisions[j]) = ""
    ELSE 0

\* C3 (as claimed, for the loader of dvc/repo/plot/data.py): a failure of
\* reading or parsing a revision's content, other than the file being absent,
\* leaves _load_from_revisions at that revision: no later revision is read, it
\* is not recorded as a miss and nothing is warned.
C3_FailFast ==
    (impl = "data_py" /\ pc = "done" /\ FirstOtherFailure # 0) =>
        /\ result = Raised(OtherFailureAt(revisions[FirstOtherFailure]))
        /\ idx = FirstOtherFailure
        /\ reads = [i \in 1..FirstOtherFailure |-> PlaceOf(revisions[i])]
        /\ revisions[FirstOtherFailure] \notin
               {exceptions[i] : i \in DOMAIN exceptions}
        /\ warnings = <<>>

\* What does hold there: failures of reading the content or of choosing the
\* parser end the loop at once; malformed content is not looked at.
C3_ReadFailuresFailFast ==
    (impl = "data_py" /\ pc = "done" /\ FirstOtherFailure # 0
     /\ NoTypedWorkspace
     /\ OtherFailureAt(revisions[FirstOtherFailure])
            \notin {"JSONDecodeError", "YAMLError"}
     /\ \A j \in 1..FirstOtherFailure :
            IntendedContent(revisions[j]) # "malformed") =>
        /\ result = Raised(OtherFailureAt(revisions[FirstOtherFailure]))
        /\ idx = FirstOtherFailure
        /\ warnings = <<>>

\* C5 (as claimed): with zero or one revision given, workspace is appended
\* and, when the working tree is dirty, HEAD is prepended, in both cases; two
\* or more revisions are used as given.
C5_DefaultingAsClaimed ==
    (impl = "plot_py" /\ pc # "entry") =>
        revisions =
            IF Len(callerRevs) <= 1
            THEN (IF dirty THEN <<"HEAD">> ELSE <<>>) \o callerRevs
                     \o <<WORKSPACE_REVISION_NAME>>
            ELSE callerRevs

\* C5 (amended): with zero or one revision given, workspace is appended;
\* HEAD is put first only when no revision was given and the working tree is
\* dirty (one given revision is never preceded by HEAD); two or more
\* revisions are used as given, whatever the dirty state.
C5_Defaulting ==
    (impl = "plot_py" /\ pc # "entry") =>
        revisions =
            CASE Len(callerRevs) = 0 /\ dirty ->
                     <<"HEAD", WORKSPACE_REVISION_NAME>>
              [] Len(callerRevs) = 0 /\ ~dirty -> <<WORKSPACE_REVISION_NAME>>
              [] Len(callerRevs) = 1 ->
                     <<callerRevs[1], WORKSPACE_REVISION_NAME>>
              [] OTHER -> callerRevs

C5_Witness ==
    /\ impl = "plot_py"
    /\ pc = "done"
    /\ Len(callerRevs) = 1
    /\ dirty
    /\ revisions = <<callerRevs[1], WORKSPACE_REVISION_NAME>>

\* ------------------------------------------------------------------------
\* Properties of _filter_fields
\* ------------------------------------------------------------------------
\* some record lacks a field of the field set
SomeFieldMissing ==
    \E i \in DOMAIN fArg : ~(fFields \subseteq DictKeys(fArg[i]))

\* C8 (as claimed): for a non-empty field set F and any record list,
\* _filter_fields fails with the field-not-found error (DvcException) if and
\* only if some record lacks a field of F; otherwise it gives, in order, one
\* record per input record, with exactly the keys F and the input's values
\* for them, and leaves the input records as they were; filtering the result
\* again gives the same records.
C8_Projection ==
    (fpc \in {"filtered", "refiltered"}) =>
        /\ SomeFieldMissing => fOut.exc = "DvcException"
        /\ ~SomeFieldMissing => fOut.exc = ""
        /\ (fOut.exc = "") =>
               /\ Len(fOut.data) = Len(fArg)
               /\ \A i \in DOMAIN fArg :
                     /\ DictKeys(fOut.data[i]) = fFields
                     /\ Len(fOut.data[i]) = Cardinality(fFields)
                     /\ \A k \in fFields :
                           DictGet(fOut.data[i], k) = DictGet(fArg[i], k)
        /\ fPoints = fArg
        /\ (fpc = "refiltered") =>
               (fOut2.exc = "" /\ fOut2.data = fOut.data)

\* every key of every record is a text, as a field name is
TextKeys(recs) == \A i \in DOMAIN recs : NoneKey \notin DictKeys(recs[i])

\* What holds: the same for records whose keys are all texts.  A record
\* with the key None that lacks a field of F ends the call in TypeError.
C8_HoldsForTextKeys ==
    /\ TextKeys(fArg) => C8_Projection
    /\ (fpc \in {"filtered", "refiltered"}) =>
          /\ (fOut.exc # "") <=> SomeFieldMissing
          /\ fOut.exc \in {"", "DvcException", "TypeError"}

\* ------------------------------------------------------------------------
\* Shape of the merged result
\* ------------------------------------------------------------------------
\* r is the record src with the revision tag rev: the key "rev" holds rev
\* and every other field of src is there with its value, nothing else
TaggedFrom(r, src, rev) ==
    /\ DictKeys(r) = DictKeys(src) \cup {S("rev")}
    /\ Len(r) = Cardinality(DictKeys(r))
    /\ DictGet(r, S("rev")) = rev
    /\ \A k \in DictKeys(src) \ {S("rev")} : DictGet(r, k) = DictGet(src, k)
    /\ \A a, b \in DOMAIN src :
          (a < b /\ src[a][1] # S("rev") /\ src[b][1] # S("rev")) =>
             \E c, d \in DOMAIN r :
                c < d /\ r[c][1] = src[a][1] /\ r[d][1] = src[b][1]

\* the file was found at position i of the sequence, where the loader
\* looked for it
FoundAt(i) == ContentAt(tree, revisions[i]) # "absent"

\* the record list of the file at position i of the sequence (none where it
\* was not found), as dvc/repo/plot.py parses it
Segment(i) ==
    IF FoundAt(i)
    THEN _load_from_tree(datafile, ContentAt(tree, revisions[i]),
                         PlaceOf(revisions[i]), default_plot).data
    ELSE <<>>

RECURSIVE Offset(_)
Offset(i) == IF i <= 1 THEN 0 ELSE Offset(i - 1) + Len(Segment(i - 1))

\* the revisions of the sequence with content, parsable or not
ReadRevisions ==
    SelectSeq(revisions, LAMBDA l : ContentAt(tree, l) # "absent")

\* the records PlotData.raw gives for the PlotData object pd, where it
\* gives some
RawRecords(pd) ==
    IF pd.cls = "JSONPlotData" THEN ParsedContent(pd.content, pd.place)
    ELSE CSVPlotData_raw(CsvContent(pd.content, pd.place, pd.delimiter),
                         pd.delimiter).rows

\* C4: the merged result is the concatenation, in the order of the revision
\* sequence, of the record lists of the revisions where the file was found,
\* each list in its own order, every record tagged with the label of the
\* revision it was loaded from.  For dvc/repo/plot/data.py: one PlotData per
\* revision read, in the order of the sequence, and the records its
\* to_datapoints returns are its own records, in order, tagged with that
\* revision; it returns them for content that is a JSON list.
C4_MergedResultShape ==
    (pc = "done" /\ result.kind = "returned") =>
        IF impl = "plot_py"
        THEN /\ Len(result.value) = Offset(Len(revisions) + 1)
             /\ \A i \in Positions : \A j \in DOMAIN Segment(i) :
                   TaggedFrom(result.value[Offset(i) + j], Segment(i)[j],
                              RevName(revisions[i]))
        ELSE /\ Len(result.value) = Len(ReadRevisions)
             /\ \A k \in DOMAIN result.value :
                   LET pd == result.value[k]
                       dps == PlotData_to_datapoints(pd, {}, FALSE)
                   IN /\ pd.revision = RevName(ReadRevisions[k])
                      /\ pd.place = PlaceOf(ReadRevisions[k])
                      /\ pd.content = ContentAt(tree, ReadRevisions[k])
                      /\ (pd.cls = "JSONPlotData"
                          /\ pd.content # "malformed") => dps.exc = ""
                      /\ (dps.exc = "") =>
                            /\ Len(dps.data) = Len(RawRecords(pd))
                            /\ \A j \in DOMAIN dps.data :
                                  TaggedFrom(dps.data[j], RawRecords(pd)[j],
                                             pd.revision)

C4_Witness ==
    /\ pc = "done"
    /\ result.kind = "returned"
    /\ impl = "plot_py"
    /\ revisions = <<"v1", "v2", WORKSPACE_REVISION_NAME>>
    /\ tree["v1"] = "records"
    /\ tree["v2"] = "absent"
    /\ tree[WorkingTree] = "records"
    /\ Len(result.value) = 4
    /\ DictGet(result.value[2], S("rev")) = "v1"
    /\ DictGet(result.value[3], S("rev")) = WORKSPACE_REVISION_NAME

\* ------------------------------------------------------------------------
\* Properties of plot()
\* ------------------------------------------------------------------------
\* C6: plot() with an explicit data file and a template of more than one
\* data source raises TooManyDataSourcesError (and raises it in no other
\* case), and when it is raised nothing was loaded: no file opened, no
\* dirty-state query, no load begun, and the template is not filled.
C6_TooManyBeforeLoading ==
    /\ (ppc # "start" /\ pDatafile # NoDatafile
        /\ Cardinality(pPlaceholders) > 1) =>
           pResult = Raised("TooManyDataSourcesError")
    /\ (pResult.exc = "TooManyDataSourcesError") =>
           /\ pDatafile # NoDatafile
           /\ Cardinality(pPlaceholders) > 1
           /\ reads = <<>>
           /\ dirtyQueries = 0
           /\ pc = "idle"
           /\ idx = 0
           /\ pLoads = <<>>
           /\ ~pFilled

C6_Witness ==
    /\ ppc = "done"
    /\ pResult.exc = "TooManyDataSourcesError"
    /\ pDatafile = ExplicitDatafile
    /\ pPlaceholders = TemplateSources
    /\ pTemplate = "custom.json"
    /\ revisions = <<>>
    /\ dirty

\* ------------------------------------------------------------------------
\* Properties of the CSV/TSV parsers and of the default-plot transform
\* ------------------------------------------------------------------------
\* the rows of the content, the columns counted with the parser's delimiter
OwnRows == csv_reader(cLines, cDelim)

\* a table: at least one row, no blank row, no empty field, every row as
\* wide as the first, and no column name twice
WellFormedTable ==
    /\ OwnRows # <<>>
    /\ \A i \in DOMAIN OwnRows :
          /\ OwnRows[i] # <<>>
          /\ Len(OwnRows[i]) = Len(OwnRows[1])
          /\ \A j \in DOMAIN OwnRows[i] : OwnRows[i][j] # <<>>
    /\ \A a, b \in DOMAIN OwnRows[1] :
          OwnRows[1][a] = OwnRows[1][b] => a = b

HasHeader == Len(OwnRows[1]) > 1

\* the rows that are data: all of them, or all but the header row
DataRows == IF HasHeader THEN Tail(OwnRows) ELSE OwnRows

\* C10 (as claimed, .csv and .tsv): a first row of one column makes every
\* row a record of the single field value, with FieldNames [value]; else
\* the first row is the header, FieldNames is that header, and each later
\* row is one record keyed by it.
C10_HeaderRule ==
    (cpc # "ready" /\ WellFormedTable) =>
        /\ cRaw.exc = ""
        /\ cRaw.fieldnames = IF HasHeader THEN OwnRows[1] ELSE <<S("value")>>
        /\ Len(cRaw.rows) = Len(DataRows)
        /\ \A i \in DOMAIN cRaw.rows :
              /\ DictKeyList(cRaw.rows[i]) = cRaw.fieldnames
              /\ \A j \in DOMAIN cRaw.fieldnames :
                    cRaw.rows[i][j][2] = DataRows[i][j]

\* The same for the comma-delimited parser alone: there it holds.
C10_HoldsForCsv ==
    (cDelim = ",") => C10_HeaderRule

\* pairs is one {x, y} pair per data row, x its zero-based position among
\* the data rows and y its last column
DefaultPairs(pairs) ==
    /\ Len(pairs) = Len(DataRows)
    /\ \A i \in DOMAIN pairs :
          /\ {S("x"), S("y")} \subseteq DictKeys(pairs[i])
          /\ DictGet(pairs[i], S("x")) = i - 1
          /\ DictGet(pairs[i], S("y")) = Last(DataRows[i])

\* C7 (as claimed, for the CSV parsers of both modules in default-plot
\* mode): one pair per data record, x counted from 0 at the first data
\* record, a header row not counted, y the value of the last column.
C7_DefaultTransform ==
    (cpc = "parsed" /\ WellFormedTable /\ DataRows # <<>>) =>
        /\ cPlotPy.exc = "" /\ DefaultPairs(cPlotPy.data)
        /\ (cDelim = ",") => (cPoints.exc = "" /\ DefaultPairs(cPoints.data))

\* The same for _transform_to_default_data of dvc/repo/plot/data.py on
\* comma-delimited content: there it holds.
C7_HoldsInDataPy ==
    (cpc = "parsed" /\ WellFormedTable /\ DataRows # <<>> /\ cDelim = ",") =>
        (cPoints.exc = "" /\ DefaultPairs(cPoints.data))

\* ------------------------------------------------------------------------
\* Properties of DefaultTemplate.fill
\* ------------------------------------------------------------------------
\* the document is the default template with points as its data values and
\* every other top-level entry as in the template
FilledWith(doc, points) ==
    /\ DictKeyList(doc) = DictKeyList(DEFAULT_CONTENT)
    /\ DictGet(doc, S("data")) = << <<S("values"), points>> >>
    /\ \A k \in {S("$schema"), S("title"), S("mark"), S("encoding")} :
          DictGet(doc, k) = DictGet(DEFAULT_CONTENT, k)

\* C9 (as claimed): filling the default template with the data points the
\* loader produces (x, y and the revision tag "rev") succeeds and gives the
\* template with exactly these points as data.values, the rest unchanged.
C9_FillWithLoaderData ==
    (tpc = "filled" /\ tTagKey = S("rev")) =>
        (tOut.exc = "" /\ FilledWith(tOut.doc, tPoints.data))

\* What holds: the fill succeeds on records keyed x, y, revision.
C9_HoldsForRevisionKey ==
    (tpc = "filled" /\ tTagKey = S("revision")) =>
        (tOut.exc = "" /\ FilledWith(tOut.doc, tPoints.data))

\* ------------------------------------------------------------------------
\* Properties of _find_data
\* ------------------------------------------------------------------------
\* the list-valued members of the mapping, in the order of the search
SearchedLists == _lists(gData)

\* a list whose entries are all mappings with every required field; an
\* empty list has no entry to show the fields and does not qualify
Qualifies(l) ==
    /\ Entries(l) # <<>>
    /\ \A j \in DOMAIN Entries(l) :
          /\ Entries(l)[j].t = "dict"
          /\ gFields \subseteq DictKeys(Entries(l)[j].items)

FirstQualifying ==
    IF \E i \in DOMAIN SearchedLists : Qualifies(SearchedLists[i])
    THEN CHOOSE i \in DOMAIN SearchedLists :
            /\ Qualifies(SearchedLists[i])
            /\ \A j \in 1..(i - 1) : ~Qualifies(SearchedLists[j])
    ELSE 0

\* C11 (as claimed): on a mapping, with a non-empty set of required fields,
\* _find_data gives the first list, in the order of the search, whose
\* entries are all mappings that have every required field; when no list
\* qualifies (empty lists, lists of scalars and lists with an entry lacking
\* a field included) it fails with PlotDataStructureError and nothing else.
C11_FindData ==
    (gpc = "searched" /\ gFields # {} /\ gData.t = "dict") =>
        IF FirstQualifying # 0
        THEN gOut.exc = "" /\ gOut.data = SearchedLists[FirstQualifying]
        ELSE gOut.exc = "PlotDataStructureError"

\* every list of the mapping has an entry, and the mappings of one list
\* have the same keys
UniformLists ==
    \A i \in DOMAIN SearchedLists :
        LET l == Entries(SearchedLists[i]) IN
        /\ l # <<>>
        /\ \A a, b \in DOMAIN l :
              (l[a].t = "dict" /\ l[b].t = "dict") =>
                 DictKeys(l[a].items) = DictKeys(l[b].items)

\* What holds: the same on mappings without an empty list and whose lists
\* of mappings are uniform in their keys.
C11_HoldsOnUniformLists ==
    UniformLists => C11_FindData

\* ------------------------------------------------------------------------
\* The revisions of the data sources of one plot() call
\* ------------------------------------------------------------------------
\* no label twice
NoRepeat(seq) ==
    \A a, b \in DOMAIN seq : RevName(seq[a]) = RevName(seq[b]) => a = b

\* C12 (as claimed): in one plot() call every data source is loaded over
\* the same revision sequence, and, for a revisions argument that repeats
\* no label, that sequence repeats none either; the defaulting done while
\* one source is loaded does not change the sequence of the next one.
C12_SameRevisionsForEverySource ==
    /\ \A i, j \in DOMAIN pLoads :
          pLoads[i].revisions = pLoads[j].revisions
    /\ NoRepeat(pRevisions) =>
          \A i \in DOMAIN pLoads : NoRepeat(pLoads[i].revisions)

\* the revisions argument that the defaulting leaves the same for every
\* source: two or more revisions given, one given that is not the
\* workspace, or none given and a dirty working tree
StableRevisions ==
    \/ Len(pRevisions) >= 2
    \/ Len(pRevisions) = 1
       /\ RevName(pRevisions[1]) # WORKSPACE_REVISION_NAME
    \/ Len(pRevisions) = 0 /\ dirty

\* What holds: the same for these arguments.
C12_HoldsForStableRevisions ==
    StableRevisions => C12_SameRevisionsForEverySource

====
